---- MODULE Spec2Model ----
(***************************************************************************)
(* Weather bot: WeatherBotCoordinator (app_coordinator.py) wires chat      *)
(* events to WeatherAPI (business_logic.py) and to the per-user history    *)
(* kept by DataStorage (data_storage.py) in one JSON file.                 *)
(*                                                                         *)
(* Representation.                                                         *)
(*   A Python dict is a sequence of members [k, v] in insertion order.     *)
(*   A key is [t, id]: t = "int" for the integer user id the coordinator   *)
(*   passes, t = "str" for the string a JSON document holds.               *)
(*   The backing file is [kind, doc]: kind = "absent" before the first     *)
(*   write, "json" afterwards; doc is the sequence of members json.dump    *)
(*   wrote, duplicates included.  A file found at start may also be        *)
(*   "unreadable" (open fails) or "invalid" (its text is no JSON document).*)
(*   boot is "off" before DataStorage() is built, "ready" once it is, and  *)
(*   "failed" when its construction ended in an exception.                 *)
(*   A text is a sequence of symbols; " " is whitespace, "/forecast" is    *)
(*   the command word, every other symbol is one non-blank word character. *)
(*   A reply is [sent, lines]; a line is [fmt, city, s1, s2, s3]: the      *)
(*   format string and the values substituted into it (the degree sign is  *)
(*   left out of the format strings).                                      *)
(***************************************************************************)
EXTENDS Integers, Sequences, FiniteSets, TLC

VARIABLES data, file, last, pc, cpu, boot

vars == <<data, file, last, pc, cpu, boot>>

\* ------------------------------------------------------------------ bounds
MaxEntries == 2    \* entries held in memory at most
MaxArgLen == 3     \* symbols after the /forecast command word at most
MaxPoints == 6     \* forecast points in a provider answer at most

\* ------------------------------------------------------------ input domains
Users == {1, 2}
Cities == {<<"P">>, <<"M">>}
Descriptions == {"clear sky"}
Temps == {"18.5"}
DtTxt == <<"00:00", "03:00", "06:00", "09:00", "12:00", "15:00", "18:00", "21:00">>

IntKey(id) == [t |-> "int", id |-> id]
StrKey(id) == [t |-> "str", id |-> id]

\* the "cod" field of a provider answer: an integer, a string, or missing
Cods == {[t |-> "int", v |-> 200], [t |-> "str", v |-> 200],
         [t |-> "int", v |-> 404], [t |-> "str", v |-> 404],
         [t |-> "absent", v |-> 0]}

\* the "weather" field: missing, or a list of items with or without description
WeatherItems == {[hasDescription |-> FALSE, description |-> ""]}
                \cup {[hasDescription |-> TRUE, description |-> d] : d \in Descriptions}
WeatherFields == {[present |-> FALSE, items |-> <<>>], [present |-> TRUE, items |-> <<>>]}
                 \cup {[present |-> TRUE, items |-> <<i>>] : i \in WeatherItems}

\* the "main" field: missing, or an object with or without temp
MainFields == {[present |-> FALSE, hasTemp |-> FALSE, temp |-> ""],
               [present |-> TRUE, hasTemp |-> FALSE, temp |-> ""]}
              \cup {[present |-> TRUE, hasTemp |-> TRUE, temp |-> t] : t \in Temps}

\* decoded current-weather answers
Payloads == [cod : Cods, weather : WeatherFields, main : MainFields]

NoPayload == [cod |-> [t |-> "absent", v |-> 0],
              weather |-> [present |-> FALSE, items |-> <<>>],
              main |-> [present |-> FALSE, hasTemp |-> FALSE, temp |-> ""]]

\* --------------------------------------------------------- Python dict ops
HasKey(d, k) == \E i \in DOMAIN d : d[i].k = k

\* dict.get(k, <<>>)
DictGet(d, k) ==
    IF HasKey(d, k) THEN d[CHOOSE i \in DOMAIN d : d[i].k = k].v ELSE <<>>

\* d[k] = v
DictSet(d, k, v) ==
    IF HasKey(d, k)
    THEN [i \in DOMAIN d |-> IF d[i].k = k THEN [k |-> k, v |-> v] ELSE d[i]]
    ELSE Append(d, [k |-> k, v |-> v])

\* ------------------------------------------------------------- DataStorage
\* json.dump writes every key as a JSON string: 1 and "1" both become "1"
JsonKey(k) == StrKey(k.id)

\* json.dump(self.data, file): one member per dict member, in dict order
_save_data(d) ==
    [kind |-> "json", doc |-> [i \in DOMAIN d |-> [k |-> JsonKey(d[i].k), v |-> d[i].v]]]

\* json.load builds the dict member by member: a repeated key keeps its first
\* position and takes the last value
RECURSIVE ObjectPairs(_, _)
ObjectPairs(doc, acc) ==
    IF doc = <<>> THEN acc
    ELSE ObjectPairs(Tail(doc), DictSet(acc, Head(doc).k, Head(doc).v))

\* FileNotFoundError: self.data = {}
_load_data(f) == IF f.kind = "absent" THEN <<>> ELSE ObjectPairs(f.doc, <<>>)

\* open() raises on a file that cannot be read (other than a missing one),
\* json.load raises on text that is no JSON document; only FileNotFoundError
\* is caught
LoadRaises(f) == f.kind \in {"unreadable", "invalid"}

\* DataStorage(filename): the exception of _load_data leaves __init__, or
\* self.data is what was loaded
DataStorage_init(f) ==
    [raised |-> LoadRaises(f), data |-> IF LoadRaises(f) THEN <<>> ELSE _load_data(f)]

Entry(city, weather) == [city |-> city, weather |-> weather]

\* lines 74-79: create the user's list if absent, append the entry
AppendRequest(d, user_id, city, weather) ==
    LET k  == IntKey(user_id)
        d1 == IF HasKey(d, k) THEN d ELSE DictSet(d, k, <<>>)
    IN  DictSet(d1, k, Append(DictGet(d1, k), Entry(city, weather)))

\* the store after save_weather_request: memory and file
save_weather_request(d, user_id, city, weather) ==
    LET d2 == AppendRequest(d, user_id, city, weather)
    IN  [data |-> d2, file |-> _save_data(d2)]

get_user_history(d, user_id) == DictGet(d, IntKey(user_id))

\* ------------------------------------------------------------ forecast data
\* one forecast point; dt_txt may be missing, description is
\* weather[0].description and temp is main.temp of the point
Point(i, withDt) ==
    [hasDt |-> withDt, dt_txt |-> DtTxt[i],
     description |-> IF i % 2 = 1 THEN "clear sky" ELSE "RAIN", temp |-> "18.5"]

\* provider lists of n points, all different, the first one with or without
\* dt_txt
ForecastLists ==
    {[i \in 1..n |-> Point(i, i > 1 \/ dt)] : n \in 0..MaxPoints, dt \in BOOLEAN}

\* decoded forecast answers
Forecasts ==
    [cod : {[t |-> "str", v |-> 200]}, hasList : {TRUE}, list : ForecastLists]
    \cup [cod : Cods, hasList : {FALSE}, list : {<<>>}]
    \cup [cod : Cods \ {[t |-> "str", v |-> 200]}, hasList : {TRUE},
          list : {<<Point(1, TRUE)>>}]

NoForecast == [cod |-> [t |-> "absent", v |-> 0], hasList |-> FALSE, list |-> <<>>]

\* what the HTTP exchange with the provider does: answers with a JSON body,
\* or fails (connection error, timeout, body that is not JSON)
Transports == {"ok", "error", "timeout", "nonjson"}
WeatherNets == [transport : {"ok"}, body : Payloads]
               \cup [transport : Transports \ {"ok"}, body : {NoPayload}]
ForecastNets == [transport : {"ok"}, body : Forecasts]
                \cup [transport : Transports \ {"ok"}, body : {NoForecast}]

\* --------------------------------------------------------------- WeatherAPI
\* requests.get raises on a connection error or timeout, response.json()
\* raises on a body that is not JSON; neither is caught
get_weather_by_city(city, net) ==
    [raised |-> net.transport # "ok", value |-> net.body]

get_forecast_by_city(city, net) ==
    [raised |-> net.transport # "ok", value |-> net.body]

\* ------------------------------------------------------------------- texts
\* str.capitalize(): first character upper case, the rest lower case
capitalize(s) ==
    CASE s = "clear sky" -> "Clear sky"
      [] s = "RAIN" -> "Rain"
      [] OTHER -> s

RECURSIVE SkipWs(_)
SkipWs(s) == IF s # <<>> /\ Head(s) = " " THEN SkipWs(Tail(s)) ELSE s

RECURSIVE TakeWord(_)
TakeWord(s) ==
    IF s = <<>> \/ Head(s) = " " THEN <<>> ELSE <<Head(s)>> \o TakeWord(Tail(s))

\* str.split(' ', 1) instead: cut at the first blank, which keeps an empty or
\* blank remainder
split_at_blank(s) ==
    LET w == TakeWord(s)
    IN  IF Len(w) = Len(s) THEN <<w>> ELSE <<w, SubSeq(s, Len(w) + 2, Len(s))>>

\* str.split(maxsplit=1): blanks around the first word are dropped, the
\* remainder, if any, is kept whole (inner and trailing blanks included)
split(s) ==
    LET a == SkipWs(s)
        w == TakeWord(a)
        rest == SkipWs(SubSeq(a, Len(w) + 1, Len(a)))
    IN  IF a = <<>> THEN <<>> ELSE IF rest = <<>> THEN <<w>> ELSE <<w, rest>>

Line(fmt, city, s1, s2, s3) ==
    [fmt |-> fmt, city |-> city, s1 |-> s1, s2 |-> s2, s3 |-> s3]
Fixed(txt) == Line(txt, <<>>, "", "", "")

NoReply == [sent |-> FALSE, lines |-> <<>>]
Reply(lines) == [sent |-> TRUE, lines |-> lines]

HistoryEmptyText == Fixed("Your history is empty!")
WeatherFailText == Fixed("Failed to get weather data. Please check the city name.")
ForecastFailText == Fixed("Failed to get forecast data. Please check the city name.")
UsageText == Fixed("Please provide a city name, e.g., /forecast Moscow")

\* ------------------------------------------------------------- Coordinator
\* a handler's outcome: the store it leaves, the reply it sent (none when it
\* ended in an exception) and the number of provider calls it made
Outcome(d, f, reply, calls) ==
    [data |-> d, file |-> f, reply |-> reply, calls |-> calls]

\* the status compared by value only, "200" taken for 200
CodIs200_AnyType(weather) == weather.cod.t # "absent" /\ weather.cod.v = 200

\* weather.get("cod") != 200
CodIs200(weather) == weather.cod.t = "int" /\ weather.cod.v = 200

\* weather['weather'][0]['description'] evaluates
HasFirstDescription(weather) ==
    /\ weather.weather.present
    /\ Len(weather.weather.items) >= 1
    /\ weather.weather.items[1].hasDescription

\* weather['main']['temp'] evaluates
HasMainTemp(weather) == weather.main.present /\ weather.main.hasTemp

handle_message(d, f, user_id, text, net) ==
    LET r == get_weather_by_city(text, net)
        weather == r.value
    IN  IF r.raised THEN Outcome(d, f, NoReply, 1)
        ELSE IF ~CodIs200(weather) THEN Outcome(d, f, Reply(<<WeatherFailText>>), 1)
        ELSE IF ~HasFirstDescription(weather) \/ ~HasMainTemp(weather)
             THEN Outcome(d, f, NoReply, 1)
        ELSE LET s == save_weather_request(d, user_id, text, weather)
             IN  Outcome(s.data, s.file,
                         Reply(<<Line("Weather in {text}:", text, "", "", ""),
                                 Line("{description.capitalize()}", <<>>,
                                      capitalize(weather.weather.items[1].description), "", ""),
                                 Line("Temperature: {temperature}C", <<>>,
                                      weather.main.temp, "", "")>>),
                         1)

\* weather.get('weather', [{}])[0] evaluates: the default has one item, a
\* stored empty list has none
HistoryItemOk(weather) ==
    ~weather.weather.present \/ Len(weather.weather.items) >= 1

HistoryDescription(weather) ==
    IF ~weather.weather.present THEN "No description"
    ELSE IF weather.weather.items[1].hasDescription
         THEN weather.weather.items[1].description
         ELSE "No description"

HistoryTemp(weather) ==
    IF weather.main.present /\ weather.main.hasTemp
    THEN weather.main.temp ELSE "No temperature data"

HistoryLine(entry) ==
    Line("City: {city}, Description: {description}, Temp: {temp}C",
         entry.city, HistoryDescription(entry.weather), HistoryTemp(entry.weather), "")

handle_history(d, f, user_id) ==
    LET history == get_user_history(d, user_id)
    IN  IF history = <<>> THEN Outcome(d, f, Reply(<<HistoryEmptyText>>), 0)
        ELSE IF \E i \in DOMAIN history : ~HistoryItemOk(history[i].weather)
             THEN Outcome(d, f, NoReply, 0)
        ELSE Outcome(d, f, Reply([i \in DOMAIN history |-> HistoryLine(history[i])]), 0)

ForecastLimit == 5

\* forecast_data.get("cod") != "200"
CodIsStr200(forecast_data) == forecast_data.cod.t = "str" /\ forecast_data.cod.v = 200

\* the list rendered whole, the [:5] forgotten
FirstPoints_NoLimit(forecast_list) == forecast_list

\* forecast_list[:5]
FirstPoints(forecast_list) ==
    SubSeq(forecast_list, 1,
           IF Len(forecast_list) < ForecastLimit THEN Len(forecast_list) ELSE ForecastLimit)

ForecastLine(forecast) ==
    Line("{dt_txt}: {description.capitalize()}, Temp: {temperature}C", <<>>,
         IF forecast.hasDt THEN forecast.dt_txt ELSE "N/A",
         capitalize(forecast.description), forecast.temp)

\* a forecast handler that records the lookup like handle_message does
handle_forecast_recording(d, f, user_id, text, net) ==
    LET command_parts == split(text)
    IN  IF Len(command_parts) < 2 THEN Outcome(d, f, Reply(<<UsageText>>), 0)
        ELSE LET city == command_parts[2]
                 r == get_forecast_by_city(city, net)
                 forecast_data == r.value
                 forecast_list == IF forecast_data.hasList THEN forecast_data.list ELSE <<>>
                 shown == FirstPoints(forecast_list)
                 s == save_weather_request(d, user_id, city, NoPayload)
             IN  IF r.raised THEN Outcome(d, f, NoReply, 1)
                 ELSE IF ~CodIsStr200(forecast_data)
                      THEN Outcome(d, f, Reply(<<ForecastFailText>>), 1)
                 ELSE Outcome(s.data, s.file,
                              Reply(<<Line("Weather forecast for {city}:", city, "", "", "")>>
                                    \o [i \in DOMAIN shown |-> ForecastLine(shown[i])]),
                              1)

handle_forecast(d, f, user_id, text, net) ==
    LET command_parts == split(text)
    IN  IF Len(command_parts) < 2 THEN Outcome(d, f, Reply(<<UsageText>>), 0)
        ELSE LET city == command_parts[2]
                 r == get_forecast_by_city(city, net)
                 forecast_data == r.value
                 forecast_list == IF forecast_data.hasList THEN forecast_data.list ELSE <<>>
                 shown == FirstPoints(forecast_list)
             IN  IF r.raised THEN Outcome(d, f, NoReply, 1)
                 ELSE IF ~CodIsStr200(forecast_data)
                      THEN Outcome(d, f, Reply(<<ForecastFailText>>), 1)
                 ELSE Outcome(d, f,
                              Reply(<<Line("Weather forecast for {city}:", city, "", "", "")>>
                                    \o [i \in DOMAIN shown |-> ForecastLine(shown[i])]),
                              1)

\* ------------------------------------------------------------ state machine
AbsentFile == [kind |-> "absent", doc |-> <<>>]

\* the event handled last and not yet answered to the chat transport
NoLast ==
    [kind |-> "none", user |-> 0, text |-> <<>>, transport |-> "ok",
     weather |-> NoPayload, forecast |-> NoForecast, reply |-> NoReply,
     calls |-> 0, data0 |-> <<>>, file0 |-> AbsentFile]

RECURSIVE TotalEntries(_)
TotalEntries(d) == IF d = <<>> THEN 0 ELSE Len(Head(d).v) + TotalEntries(Tail(d))

\* texts the transport routes to the forecast handler: the command word, then
\* nothing or a blank followed by anything
RECURSIVE SymbolSeqs(_)
SymbolSeqs(n) ==
    IF n = 0 THEN {<<>>}
    ELSE SymbolSeqs(n - 1)
         \cup {Append(s, c) : s \in {t \in SymbolSeqs(n - 1) : Len(t) = n - 1},
                               c \in {" ", "M"}}

ForecastTexts ==
    {<<"/forecast">> \o r : r \in {s \in SymbolSeqs(MaxArgLen) : s = <<>> \/ Head(s) = " "}}

Idle == last.kind = "none" /\ cpu = 0 /\ \A u \in Users : pc[u] = "idle"

Init ==
    /\ data = <<>>
    /\ file = AbsentFile
    /\ last = NoLast
    /\ pc = [u \in Users |-> "idle"]
    /\ cpu = 0
    /\ boot = "ready"

\* Application.builder().token(token).build() leaves concurrent updates off:
\* the transport hands one update at a time to its handler, so in Spec a
\* handler runs from its first line to its reply before the next one starts.

\* a plain-text event: the whole text is the city
Message(u, text, net) ==
    LET o == handle_message(data, file, u, text, net)
    IN  /\ Idle
        /\ o.data = data \/ TotalEntries(data) < MaxEntries
        /\ data' = o.data
        /\ file' = o.file
        /\ last' = [NoLast EXCEPT !.kind = "message", !.user = u, !.text = text,
                                  !.transport = net.transport, !.weather = net.body,
                                  !.reply = o.reply, !.calls = o.calls,
                                  !.data0 = data, !.file0 = file]
        /\ UNCHANGED <<pc, cpu, boot>>

\* the /history command
History(u) ==
    LET o == handle_history(data, file, u)
    IN  /\ Idle
        /\ data' = o.data
        /\ file' = o.file
        /\ last' = [NoLast EXCEPT !.kind = "history", !.user = u,
                                  !.reply = o.reply, !.calls = o.calls,
                                  !.data0 = data, !.file0 = file]
        /\ UNCHANGED <<pc, cpu, boot>>

\* the /forecast command
Forecast(u, text, net) ==
    LET o == handle_forecast(data, file, u, text, net)
    IN  /\ Idle
        /\ data' = o.data
        /\ file' = o.file
        \* no call, no exchange with the provider to choose
        /\ o.calls = 0 => net = [transport |-> "ok", body |-> NoForecast]
        /\ last' = [NoLast EXCEPT !.kind = "forecast", !.user = u, !.text = text,
                                  !.transport = net.transport, !.forecast = net.body,
                                  !.reply = o.reply, !.calls = o.calls,
                                  !.data0 = data, !.file0 = file]
        /\ UNCHANGED <<pc, cpu, boot>>

\* the handler's task is over: its reply, if any, is with the transport
Deliver ==
    /\ last.kind # "none"
    /\ last' = NoLast
    /\ UNCHANGED <<data, file, pc, cpu, boot>>

\* the process is restarted: DataStorage() loads the backing file
Restart ==
    /\ Idle
    /\ data' = _load_data(file)
    /\ UNCHANGED <<file, last, pc, cpu, boot>>

Next ==
    \/ \E u \in Users, text \in Cities, net \in WeatherNets : Message(u, text, net)
    \/ \E u \in Users : History(u)
    \/ \E u \in Users, text \in ForecastTexts, net \in ForecastNets : Forecast(u, text, net)
    \/ Deliver
    \/ Restart

Spec == Init /\ [][Next]_vars

\* ------------------------------------------- DataStorage used on its own
\* payloads a caller of save_weather_request may hand over (the module's own
\* example stores one with neither a weather list nor a main object)
StoredPayloads == [cod : {[t |-> "int", v |-> 200]}, weather : WeatherFields, main : MainFields]

\* storage.save_weather_request(user_id, city, weather)
StoreSave(u, city, weather) ==
    LET s == save_weather_request(data, u, city, weather)
    IN  /\ Idle
        /\ TotalEntries(data) < MaxEntries
        /\ data' = s.data
        /\ file' = s.file
        /\ UNCHANGED <<last, pc, cpu, boot>>

NextStore ==
    \/ \E u \in Users, city \in Cities, weather \in StoredPayloads : StoreSave(u, city, weather)
    \/ \E u \in Users : History(u)
    \/ Deliver
    \/ Restart

SpecStore == Init /\ [][NextStore]_vars

\* ------------------------------------------------- handler tasks interleaved
\* The handlers are coroutines on one event loop: a task runs alone from one
\* await to the next.  handle_message awaits only reply_text; the provider
\* call and save_weather_request are plain calls, so from the start of the
\* handler to its reply no other task runs.  cpu names the task that is
\* running between two awaits (0: none).  SpecConc lets the tasks of different
\* users overlap wherever an await allows it.
ConcNets ==
    {[transport |-> "ok",
      body |-> [cod |-> [t |-> "int", v |-> 200],
                weather |-> [present |-> TRUE,
                             items |-> <<[hasDescription |-> TRUE,
                                          description |-> "clear sky"]>>],
                main |-> [present |-> TRUE, hasTemp |-> TRUE, temp |-> "18.5"]]],
     [transport |-> "ok", body |-> NoPayload],
     [transport |-> "error", body |-> NoPayload]}

\* handle_message up to the list append of save_weather_request (lines 102-113,
\* 74-79): the task ends in an exception, goes to its failure reply, or has
\* appended and is about to write the file
MsgBegin(u, text, net) ==
    LET r == get_weather_by_city(text, net)
        weather == r.value
    IN  /\ last.kind = "none" /\ cpu = 0 /\ pc[u] = "idle"
        /\ IF r.raised THEN UNCHANGED <<data, pc, cpu>>
           ELSE IF ~CodIs200(weather)
                THEN pc' = [pc EXCEPT ![u] = "replying"] /\ UNCHANGED <<data, cpu>>
           ELSE IF ~HasFirstDescription(weather) \/ ~HasMainTemp(weather)
                THEN UNCHANGED <<data, pc, cpu>>
           ELSE /\ TotalEntries(data) < MaxEntries
                /\ data' = AppendRequest(data, u, text, weather)
                /\ pc' = [pc EXCEPT ![u] = "saving"]
                /\ cpu' = u
        /\ UNCHANGED <<file, last, boot>>

\* line 80: self._save_data(), then the handler awaits reply_text
SaveData(u) ==
    /\ pc[u] = "saving" /\ cpu = u
    /\ file' = _save_data(data)
    /\ pc' = [pc EXCEPT ![u] = "replying"]
    /\ cpu' = 0
    /\ UNCHANGED <<data, last, boot>>

\* reply_text returns and the handler ends
ReplyDone(u) ==
    /\ pc[u] = "replying" /\ cpu = 0
    /\ pc' = [pc EXCEPT ![u] = "idle"]
    /\ UNCHANGED <<data, file, last, cpu, boot>>

NextConc ==
    \/ \E u \in Users, text \in Cities, net \in ConcNets : MsgBegin(u, text, net)
    \/ \E u \in Users : SaveData(u)
    \/ \E u \in Users : ReplyDone(u)
    \/ Restart

SpecConc == Init /\ [][NextConc]_vars

\* ------------------------------------------------------------ process start
FullPayload ==
    [cod |-> [t |-> "int", v |-> 200],
     weather |-> [present |-> TRUE,
                  items |-> <<[hasDescription |-> TRUE, description |-> "clear sky"]>>],
     main |-> [present |-> TRUE, hasTemp |-> TRUE, temp |-> "18.5"]]

\* stores an earlier run may have held after at most n recorded lookups
RECURSIVE StoresAfter(_)
StoresAfter(n) ==
    IF n = 0 THEN {<<>>}
    ELSE StoresAfter(n - 1)
         \cup {AppendRequest(d, u, c, FullPayload) :
                 d \in StoresAfter(n - 1), u \in Users, c \in Cities}

\* what the process may find under the file name when it starts: nothing, a
\* document an earlier run wrote, the same behind an open() that fails, or
\* text that is no JSON document
StartFiles ==
    {AbsentFile, [kind |-> "invalid", doc |-> <<>>]}
    \cup {_save_data(d) : d \in StoresAfter(MaxEntries)}
    \cup {[kind |-> "unreadable", doc |-> _save_data(d).doc] : d \in StoresAfter(MaxEntries)}

InitStart ==
    /\ data = <<>>
    /\ file \in StartFiles
    /\ last = NoLast
    /\ pc = [u \in Users |-> "idle"]
    /\ cpu = 0
    /\ boot = "off"

\* self.data_storage = DataStorage()
Construct ==
    LET s == DataStorage_init(file)
    IN  /\ boot = "off"
        /\ boot' = IF s.raised THEN "failed" ELSE "ready"
        /\ data' = s.data
        /\ UNCHANGED <<file, last, pc, cpu>>

\* the /history command, once the coordinator exists
StartHistory(u) == boot = "ready" /\ History(u)

NextStart ==
    \/ Construct
    \/ \E u \in Users : StartHistory(u)
    \/ Deliver

SpecStart == InitStart /\ [][NextStart]_vars

\* ------------------------------------------------------------------ claims
Int200 == [t |-> "int", v |-> 200]
Str200 == [t |-> "str", v |-> 200]

\* a current-weather lookup that returned a payload
Looked == last.kind = "message" /\ last.transport = "ok"

\* C1: a plain-text event whose lookup returns cod == 200 appends exactly one
\* entry {city, weather = the payload} to the end of that user's history and
\* leaves the other users' histories unchanged, whatever else the payload
\* holds or lacks.
C1_AppendsOnEverySuccess ==
    (Looked /\ last.weather.cod = Int200) =>
        /\ get_user_history(data, last.user)
             = Append(get_user_history(last.data0, last.user),
                      [city |-> last.text, weather |-> last.weather])
        /\ \A v \in Users \ {last.user} :
             get_user_history(data, v) = get_user_history(last.data0, v)

\* C2: a plain-text event whose lookup returns a payload with cod other than
\* the integer 200, or with no cod, is answered with exactly the fixed
\* failure text, and neither the in-memory mapping nor the file is written.
C2_FailureRepliesAndWritesNothing ==
    (Looked /\ last.weather.cod # Int200) =>
        /\ last.reply.sent
        /\ last.reply.lines
             = <<Fixed("Failed to get weather data. Please check the city name.")>>
        /\ data = last.data0
        /\ file = last.file0

\* C2 witness: a failed lookup (cod is the string "200") answered while the
\* store already holds entries.
C2_Witness ==
    /\ Looked
    /\ last.weather.cod = Str200
    /\ HasFirstDescription(last.weather) /\ HasMainTemp(last.weather)
    /\ TotalEntries(data) > 0
    /\ file.kind = "json"

\* C3: persisting the store and reloading it in a new DataStorage gives every
\* user id the history it had before the reload.
C3_ReloadKeepsHistories ==
    \A u \in Users :
        get_user_history(_load_data(_save_data(data)), u) = get_user_history(data, u)

IsPrefix(s, t) == Len(s) <= Len(t) /\ SubSeq(t, 1, Len(s)) = s

\* the history a reader of the backing file finds for the user
PersistedHistory(f, u) == DictGet(_load_data(f), StrKey(u))

\* C4: over events and restarts the persisted history of every user only
\* grows: each step leaves the earlier persisted history as a prefix.
C4_PersistedHistoryOnlyGrows ==
    [][\A u \in Users : IsPrefix(PersistedHistory(file, u), PersistedHistory(file', u))]_vars

\* C5: a transport failure of the provider call is answered with the fixed
\* failure message of the handler; the handler never ends without a reply.
C5_TransportFailureIsAnswered ==
    (last.kind \in {"message", "forecast"} /\ last.transport # "ok") =>
        /\ last.reply.sent
        /\ last.reply.lines
             = IF last.kind = "message"
               THEN <<Fixed("Failed to get weather data. Please check the city name.")>>
               ELSE <<Fixed("Failed to get forecast data. Please check the city name.")>>

\* the command text carries nothing but blanks after the command word
NoCityArgument(text) == \A i \in 2..Len(text) : text[i] = " "

\* C7: a forecast command with no city argument is answered with exactly the
\* usage hint and makes no call to the provider.
C7_NoArgumentNoCall ==
    (last.kind = "forecast" /\ NoCityArgument(last.text)) =>
        /\ last.reply.sent
        /\ last.reply.lines = <<Fixed("Please provide a city name, e.g., /forecast Moscow")>>
        /\ last.calls = 0

\* C7 witness: the command followed by blanks only has been handled.
C7_Witness ==
    last.kind = "forecast" /\ NoCityArgument(last.text) /\ Len(last.text) > 1

\* C8: a forecast event leaves the in-memory store and the backing file as
\* they were, whatever its argument and whatever the provider does.
C8_ForecastWritesNothing ==
    last.kind = "forecast" => data = last.data0 /\ file = last.file0

\* C8 witness: a successful forecast rendered while the store holds entries.
C8_Witness ==
    /\ last.kind = "forecast"
    /\ last.calls = 1
    /\ last.transport = "ok"
    /\ last.forecast.cod = Str200
    /\ Len(last.forecast.list) > 0
    /\ TotalEntries(data) > 0

Min(a, b) == IF a < b THEN a ELSE b

C6_HistoryRendersAnyPayload ==
    LET history == get_user_history(last.data0, last.user)
    IN  (last.kind = "history" /\ history # <<>>) =>
            /\ last.reply.sent
            /\ Len(last.reply.lines) = Len(history)
            /\ \A i \in DOMAIN history :
                 LET w == history[i].weather
                     l == last.reply.lines[i]
                 IN  /\ l.city = history[i].city
                     /\ (~w.weather.present \/ w.weather.items = <<>>
                           \/ ~w.weather.items[1].hasDescription)
                          => l.s1 = "No description"
                     /\ ~(w.main.present /\ w.main.hasTemp)
                          => l.s2 = "No temperature data"

\* C10: whenever no save_weather_request call is in progress the backing file
\* holds exactly the in-memory mapping: every member in memory is in the file
\* under its key, and the file has no other member.
C10_FileHoldsMemory ==
    (\A u \in Users : pc[u] # "saving") =>
        /\ \A i \in DOMAIN data :
             /\ HasKey(_load_data(file), JsonKey(data[i].k))
             /\ DictGet(_load_data(file), JsonKey(data[i].k)) = data[i].v
        /\ \A j \in DOMAIN file.doc :
             \E i \in DOMAIN data : JsonKey(data[i].k) = file.doc[j].k

\* C11: constructing DataStorage over a backing file that is absent,
\* unreadable or no valid JSON document completes and leaves the store empty:
\* get_user_history is then empty for every user id.
C11_StartupTreatsBadFileAsEmpty ==
    (boot # "off" /\ file.kind \in {"absent", "unreadable", "invalid"}) =>
        /\ boot = "ready"
        /\ data = <<>>
        /\ \A u \in Users : get_user_history(data, u) = <<>>

====
